---- MODULE Spec2Model ----
(***************************************************************************)
(* Model of loadtester.py: the Metrics aggregator, the TokenBucket rate    *)
(* limiter, the worker coroutine and the run()/main() orchestration on a   *)
(* single-threaded asyncio event loop.  A worker coroutine runs atomically *)
(* from one await that suspends to the next one, so every action below is  *)
(* one such run of one task.  Time is a discrete clock of whole seconds.   *)
(***************************************************************************)
EXTENDS Integers, Sequences, FiniteSets, TLC

\* ---------------------------------------------------------------- bounds
MaxWorkers == 2          \* --concurrency ranges over 0..MaxWorkers
MaxRequests == 2         \* --requests ranges over 0..MaxRequests
MaxDuration == 1         \* --duration ranges over 0..MaxDuration
\* the clock runs to MaxTime, a second past the longest deadline; past MaxTime
\* it advances only as far as the wake time of a worker that sleeps for a token
MaxTime == 2
MaxRecords == MaxRequests       \* the transport answers only this many requests

\* ------------------------------------------------------- program constants
None == -1               \* Python's None, for optional integers
Statuses == {200, 500}   \* HTTP status codes the target answers with
\* the status codes record() is given: the keys status_counts can have
StatusCodes == Statuses \cup {199, 399, 400}
BodyLen == 1             \* len(body) of a response that is read to its end
QpsValues == {0, 1}      \* --qps: 0 = unlimited, else tokens per second

Workers == 1..MaxWorkers

Min(a, b) == IF a <= b THEN a ELSE b
Max(a, b) == IF a >= b THEN a ELSE b

VARIABLES
    args,               \* the parsed command line
    main_pc,            \* position of main()/run()
    now,                \* time.time() / time.monotonic(), in seconds
    stop_at,            \* run(): deadline, or None
    remaining_counter,  \* run(): value of the asyncio.Semaphore, or None
    bucket,             \* run(): the TokenBucket (present = FALSE when None)
    workers,            \* the worker tasks
    metrics,            \* the Metrics object
    shutdown_event,     \* run(): the asyncio.Event set by the signal handler
    summary_out,        \* the printed summary
    issued,             \* history: number of session.request() calls started
    present,            \* history: number of record() calls with a status
    finalize_calls,     \* history: number of finalize() calls
    sink_failed         \* history: a row write failed on an open sink

vars == <<args, main_pc, now, stop_at, remaining_counter, bucket, workers,
          metrics, shutdown_event, summary_out, issued, present,
          finalize_calls, sink_failed>>

\* ------------------------------------------------------------------ Metrics

\* Metrics.__init__ / __post_init__
Metrics(start_time, csv_path) ==
    [start_time |-> start_time, end_time |-> 0,
     total_requests |-> 0, successful |-> 0, failed |-> 0,
     status_counts |-> [s \in StatusCodes |-> 0],
     latencies_ms |-> <<>>, bytes_received |-> 0,
     csv_writer |-> csv_path, csv_open |-> csv_path, csv_rows |-> 0,
     csv_buffered |-> 0]

IsSuccessUpTo400(status) == status # None /\ 200 <= status /\ status <= 400

\* the condition of the if at the head of record()
IsSuccess(status) == status # None /\ 200 <= status /\ status < 400

\* what the last two statements of record() do on an open sink: the row is
\* written and flushed; writerow() raises; writerow() puts the row in the
\* file's buffer and flush() raises
SinkOutcomes == {"written", "write_fails", "flush_fails"}

\* record() raises when the row cannot be written: the file is closed
\* (after finalize) or writerow()/flush() fails
recordRaises(m, sink) == m.csv_writer /\ (~m.csv_open \/ sink # "written")

recordForgetsFailed(m, status, latency_ms, bytes_rcv, sink) ==
    [m EXCEPT !.total_requests = @ + 1,
              !.successful = IF IsSuccess(status) THEN @ + 1 ELSE @,
              !.failed = IF status = None THEN @
                         ELSE IF IsSuccess(status) THEN @ ELSE @ + 1,
              !.status_counts = IF status # None
                                THEN [@ EXCEPT ![status] = @ + 1] ELSE @,
              !.latencies_ms = Append(@, latency_ms),
              !.bytes_received = @ + bytes_rcv]

\* Metrics.record: the counters first, the CSV row last.  csv_rows are the
\* rows on the file, csv_buffered the rows written but not flushed.
record(m, status, latency_ms, bytes_rcv, sink) ==
    LET counted ==
          [m EXCEPT !.total_requests = @ + 1,
                    !.successful = IF IsSuccess(status) THEN @ + 1 ELSE @,
                    !.failed = IF IsSuccess(status) THEN @ ELSE @ + 1,
                    !.status_counts = IF status # None
                                      THEN [@ EXCEPT ![status] = @ + 1] ELSE @,
                    !.latencies_ms = Append(@, latency_ms),
                    !.bytes_received = @ + bytes_rcv]
    IN  IF ~(m.csv_writer /\ m.csv_open) THEN counted
        ELSE IF sink = "written"
        THEN [counted EXCEPT !.csv_rows = @ + m.csv_buffered + 1,
                             !.csv_buffered = 0]
        ELSE IF sink = "flush_fails"
        THEN [counted EXCEPT !.csv_buffered = @ + 1]
        ELSE counted

\* what close() can do with the rows left in the buffer: write them, or fail
\* to; with nothing buffered it writes nothing and succeeds
CloseOutcomes(m) ==
    IF m.csv_writer /\ m.csv_open /\ m.csv_buffered > 0
    THEN {"written", "flush_fails"} ELSE {"written"}

\* Metrics.finalize lets the OSError of close() through
finalizeRaises(m, sink) ==
    m.csv_writer /\ m.csv_open /\ m.csv_buffered > 0 /\ sink # "written"

\* Metrics.finalize; close() writes the rows left in the buffer, and when that
\* fails the file is closed all the same and the buffered rows are lost
finalize(m, t, sink) ==
    [m EXCEPT !.end_time = t, !.csv_open = FALSE,
              !.csv_rows = IF m.csv_open /\ sink = "written"
                           THEN @ + m.csv_buffered ELSE @,
              !.csv_buffered = 0]

\* sorted(): insertion of x into the ascending sequence q
RECURSIVE Insert(_, _)
Insert(x, q) ==
    IF q = <<>> THEN <<x>>
    ELSE IF x <= Head(q) THEN <<x>> \o q
    ELSE <<Head(q)>> \o Insert(x, Tail(q))

RECURSIVE sorted(_)
sorted(q) == IF q = <<>> THEN <<>> ELSE Insert(Head(q), sorted(Tail(q)))

RECURSIVE sum(_)
sum(q) == IF q = <<>> THEN 0 ELSE Head(q) + sum(Tail(q))

roundHalfUp(num, den) == (2 * num + den) \div (2 * den)

\* round(num / den) for num >= 0, den > 0: the nearest integer, a tie going
\* to the even one
round(num, den) ==
    LET q == num \div den
        r == num % den
    IN  IF 2 * r < den THEN q
        ELSE IF 2 * r > den THEN q + 1
        ELSE IF q % 2 = 0 THEN q ELSE q + 1

\* summary(): pct(p) on the sorted samples, p = num / den; None when there
\* are no samples.  Python indexes from 0, a sequence here from 1.
pct(lat, num, den) ==
    IF lat = <<>> THEN None
    ELSE lat[Max(0, Min(Len(lat) - 1, round(num * (Len(lat) - 1), den))) + 1]

\* Metrics.summary: the counters and latency statistics it reports; the mean
\* is the pair <<sum, count>> of the quotient, <<>> when there is no sample
summary(m) ==
    LET lat == sorted(m.latencies_ms)
    IN  [total_requests |-> m.total_requests, successful |-> m.successful,
         failed |-> m.failed, status_counts |-> m.status_counts,
         bytes_received |-> m.bytes_received,
         mean_latency_ms |-> IF lat = <<>> THEN <<>> ELSE <<sum(lat), Len(lat)>>,
         median_latency_ms |-> pct(lat, 1, 2),
         p95_latency_ms |-> pct(lat, 19, 20),
         p99_latency_ms |-> pct(lat, 99, 100)]

NoSummary == [total_requests |-> None, successful |-> None, failed |-> None,
              status_counts |-> [s \in StatusCodes |-> 0],
              bytes_received |-> None, mean_latency_ms |-> <<>>, median_latency_ms |-> None,
              p95_latency_ms |-> None, p99_latency_ms |-> None]

\* -------------------------------------------------------------- TokenBucket

\* TokenBucket.__init__; locked/waiters are the asyncio.Lock.  hz is the
\* number of clock ticks in a second for the times the bucket is given: 1 in
\* a run, where the clock counts whole seconds.
TokenBucketEmpty(rate_per_sec, burst, t) ==
    LET capacity == IF burst # None THEN burst ELSE Max(1, rate_per_sec)
    IN  [present |-> TRUE, rate |-> rate_per_sec, capacity |-> capacity,
         tokens |-> 0, updated |-> t, locked |-> 0, waiters |-> <<>>,
         hz |-> 1]

TokenBucket(rate_per_sec, burst, t) ==
    LET capacity == IF burst # None THEN burst ELSE Max(1, rate_per_sec)
    IN  [present |-> TRUE, rate |-> rate_per_sec, capacity |-> capacity,
         tokens |-> capacity, updated |-> t, locked |-> 0, waiters |-> <<>>,
         hz |-> 1]

NoBucket == [present |-> FALSE, rate |-> 0, capacity |-> 0, tokens |-> 0,
             updated |-> 0, locked |-> 0, waiters |-> <<>>, hz |-> 1]

\* asyncio.Lock.release: the first waiter, if any, is the next owner
Release(b) ==
    IF b.waiters = <<>> THEN [b EXCEPT !.locked = 0]
    ELSE [b EXCEPT !.locked = Head(b.waiters), !.waiters = Tail(b.waiters)]

\* whole ticks of the sleep in acquire(): max(0.001, (1 - tokens) / rate)
\* seconds, or 0.01 s when the rate is 0
SleepFor(b) == IF b.rate > 0 THEN ((1 - b.tokens) * b.hz) \div b.rate ELSE 0

\* acquire(): int(refill), refill = delta * self.rate
RefillOf(b, t) == ((t - b.updated) * b.rate) \div b.hz

\* acquire(): the refill branch
RefillUncapped(b, t) ==
    [b EXCEPT !.tokens = @ + RefillOf(b, t), !.updated = t]

RefillKeepsStamp(b, t) ==
    [b EXCEPT !.tokens = Min(b.capacity, @ + RefillOf(b, t))]

Refill(b, t) ==
    [b EXCEPT !.tokens = Min(b.capacity, @ + RefillOf(b, t)), !.updated = t]

\* sem is the state of the task that asyncio.wait_for makes of
\* remaining_counter.acquire(): "none" (no such task), "new" (created, not
\* yet run), "got" (it has taken a unit) or "blocked" (it waits for one)
NewWorker == [pc |-> "created", status |-> None, started |-> 0, wake |-> 0,
              cancel |-> FALSE, sem |-> "none"]

\* a worker outside a request: its locals status/started are dead until the
\* next request overwrites them
At(wk, pc) ==
    [wk EXCEPT !.pc = pc, !.status = None, !.started = 0, !.wake = 0,
               !.sem = "none"]

\* the worker's locals once session.request() is started
Issue(wk, t) ==
    [wk EXCEPT !.pc = "sending", !.started = t, !.status = None,
               !.sem = "none"]

RECURSIVE acquireSleepsUnlocked(_, _, _)
acquireSleepsUnlocked(wk, b, t) ==
    IF b.tokens < 1
    THEN IF RefillOf(b, t) >= 1
         THEN acquireSleepsUnlocked(wk, Refill(b, t), t)
         ELSE [wk |-> [At(wk, "sleeping") EXCEPT !.wake = t + SleepFor(b)],
               bkt |-> Release(b), issued |-> 0]
    ELSE [wk |-> Issue(wk, t),
          bkt |-> Release([b EXCEPT !.tokens = @ - 1]),
          issued |-> 1]

\* TokenBucket.acquire, from the while test with the lock held, followed by
\* the start of the request when a token is taken
RECURSIVE acquire(_, _, _)
acquire(wk, b, t) ==
    IF b.tokens < 1
    THEN IF RefillOf(b, t) >= 1
         THEN acquire(wk, Refill(b, t), t)
         ELSE [wk |-> [At(wk, "sleeping") EXCEPT !.wake = t + SleepFor(b)],
               bkt |-> b, issued |-> 0]
    ELSE [wk |-> Issue(wk, t),
          bkt |-> Release([b EXCEPT !.tokens = @ - 1]),
          issued |-> 1]

\* ------------------------------------------------------------------- worker

\* asyncio.Semaphore.locked(): acquire() has to wait
SemaphoreLockedEarly(value) == value <= 1

\* asyncio.Semaphore.locked(): acquire() has to wait
SemaphoreLocked(value) == value = 0

\* worker(): from `if bucket: await bucket.acquire()` to the next await
\* that suspends.  Gives the worker, the bucket and whether a request was
\* started.
Admit(w, wk, b, t) ==
    IF b.present
    THEN IF b.locked # 0
         THEN [wk |-> At(wk, "lock_wait"),
               bkt |-> [b EXCEPT !.waiters = Append(@, w)], issued |-> 0]
         ELSE acquire(wk, [b EXCEPT !.locked = w], t)
    ELSE [wk |-> Issue(wk, t), bkt |-> b, issued |-> 1]

\* worker(): one pass from the top of `while True` to the next await that
\* suspends.  With a request budget that is asyncio.wait_for, which makes a
\* task of remaining_counter.acquire() and suspends also when the semaphore
\* is free (CPython 3.11).
LoopTop(w, wk, b, rem, t) ==
    IF stop_at # None /\ t >= stop_at
    THEN [wk |-> At(wk, "done"), bkt |-> b, issued |-> 0]
    ELSE IF rem # None
    THEN [wk |-> [At(wk, "sem_wait") EXCEPT !.sem = "new"], bkt |-> b,
          issued |-> 0]
    ELSE Admit(w, wk, b, t)

Finished(w) == workers[w].pc \in {"done", "cancelled", "crashed"}
Spawned == 1..args.concurrency
AllFinished == \A w \in Spawned : Finished(w)

\* ------------------------------------------------------------ main and run

\* main(): the two configuration checks that precede asyncio.run
ConfigValidLax(a) ==
    ~(a.duration <= 0 /\ a.requests < 0) /\ ~(a.concurrency <= 0)

ConfigValid(a) ==
    ~(a.duration <= 0 /\ a.requests <= 0) /\ ~(a.concurrency <= 0)

\* run(): stop_at
StopAt(a, t) == IF a.duration > 0 THEN t + a.duration ELSE None

RemainingCounterOneMore(a, stop) ==
    IF stop = None /\ a.requests > 0 THEN a.requests + 1 ELSE None

\* run(): remaining_counter
RemainingCounter(a, stop) ==
    IF stop = None /\ a.requests > 0 THEN a.requests ELSE None

Configs ==
    [duration : 0..MaxDuration, requests : 0..MaxRequests,
     concurrency : 0..MaxWorkers, qps : QpsValues, csv : BOOLEAN]

Init ==
    /\ args \in Configs
    /\ main_pc = "start"
    /\ now = 0
    /\ stop_at = None
    /\ remaining_counter = None
    /\ bucket = NoBucket
    /\ workers = [w \in Workers |-> [NewWorker EXCEPT !.pc = "none"]]
    /\ metrics = Metrics(0, FALSE)
    /\ shutdown_event = FALSE
    /\ summary_out = NoSummary
    /\ issued = 0
    /\ present = 0
    /\ finalize_calls = 0
    /\ sink_failed = FALSE

\* main(): "Error: specify either --duration > 0 or --requests > 0" /
\* "--concurrency must be >= 1", then sys.exit(1)
Reject ==
    /\ main_pc = "start"
    /\ ~ConfigValid(args)
    /\ main_pc' = "rejected"
    /\ UNCHANGED <<args, now, stop_at, remaining_counter, bucket, workers,
                   metrics, shutdown_event, summary_out, issued, present,
                   finalize_calls, sink_failed>>

\* run() up to its first await.  metrics = Metrics(start_time=time.time()):
\* args.csv is not passed, so a run has no CSV sink
Run ==
    /\ main_pc = "start"
    /\ ConfigValid(args)
    /\ metrics' = Metrics(now, FALSE)
    /\ bucket' = IF args.qps > 0
                 THEN TokenBucket(args.qps, args.concurrency, now)
                 ELSE NoBucket
    /\ stop_at' = StopAt(args, now)
    /\ remaining_counter' = RemainingCounter(args, stop_at')
    /\ workers' = [w \in Workers |->
                     IF w <= args.concurrency THEN NewWorker ELSE workers[w]]
    /\ main_pc' = "waiting"
    /\ UNCHANGED <<args, now, shutdown_event, summary_out, issued, present,
                   finalize_calls, sink_failed>>

\* run() has created the worker tasks and suspended in its wait; the loop runs
\* the first step of each task, in creation order, before anything else
Starting == \E w \in Workers : workers[w].pc = "created"

\* task.cancel() was called on a task that has not yet seen it; the task's
\* next step is the CancelledError
Cancelling(w) ==
    workers[w].cancel /\ workers[w].pc \notin {"done", "cancelled", "crashed"}

Running == main_pc \in {"waiting", "cancel_wait", "closing", "teardown"}

\* the task can take a step of its own code: the first steps are over and no
\* cancellation is waiting for it
Runnable(w) == Running /\ ~Starting /\ w \in Spawned /\ ~workers[w].cancel

\* the worker goes round the loop
Loop(w, wk) ==
    LET n == LoopTop(w, wk, bucket, remaining_counter, now)
    IN  /\ workers' = [workers EXCEPT ![w] = n.wk]
        /\ bucket' = n.bkt
        /\ issued' = issued + n.issued
        /\ UNCHANGED remaining_counter

\* the task's first step
WorkerStart(w) ==
    /\ main_pc = "waiting"
    /\ workers[w].pc = "created"
    /\ \A v \in 1..(w - 1) : workers[v].pc # "created"
    /\ Loop(w, workers[w])
    /\ UNCHANGED <<args, main_pc, now, stop_at, metrics, shutdown_event,
                   summary_out, present, finalize_calls, sink_failed>>

\* the task made by wait_for runs Semaphore.acquire(): it takes a unit, or
\* finds the semaphore locked and waits
SemAcquire(w) ==
    /\ Runnable(w)
    /\ workers[w].pc = "sem_wait"
    /\ workers[w].sem = "new"
    /\ IF SemaphoreLocked(remaining_counter)
       THEN /\ workers' = [workers EXCEPT ![w].sem = "blocked"]
            /\ UNCHANGED remaining_counter
       ELSE /\ workers' = [workers EXCEPT ![w].sem = "got"]
            /\ remaining_counter' = remaining_counter - 1
    /\ UNCHANGED <<args, main_pc, now, stop_at, bucket, metrics,
                   shutdown_event, summary_out, issued, present,
                   finalize_calls, sink_failed>>

\* wait_for returns to the worker, which goes on to the rate limiter and the
\* request
SemReturns(w) ==
    /\ Runnable(w)
    /\ workers[w].pc = "sem_wait"
    /\ workers[w].sem = "got"
    /\ LET a == Admit(w, workers[w], bucket, now)
       IN  /\ workers' = [workers EXCEPT ![w] = a.wk]
           /\ bucket' = a.bkt
           /\ issued' = issued + a.issued
    /\ UNCHANGED <<args, main_pc, now, stop_at, remaining_counter, metrics,
                   shutdown_event, summary_out, present, finalize_calls,
                   sink_failed>>

SemTimeoutRetries(w) ==
    /\ Runnable(w)
    /\ workers[w].pc = "sem_wait"
    /\ workers[w].sem = "blocked"
    /\ workers' = [workers EXCEPT ![w].sem = "new"]
    /\ UNCHANGED <<args, main_pc, now, stop_at, remaining_counter, bucket,
                   metrics, shutdown_event, summary_out, issued, present,
                   finalize_calls, sink_failed>>

\* asyncio.wait_for(remaining_counter.acquire(), timeout=0.01) times out
SemTimeout(w) ==
    /\ Runnable(w)
    /\ workers[w].pc = "sem_wait"
    /\ workers[w].sem = "blocked"
    /\ workers' = [workers EXCEPT ![w] = At(@, "done")]
    /\ UNCHANGED <<args, main_pc, now, stop_at, remaining_counter, bucket,
                   metrics, shutdown_event, summary_out, issued, present,
                   finalize_calls, sink_failed>>

\* the worker resumes in acquire(): it got the lock, or its sleep is over
Resume(w) ==
    LET a == acquire(workers[w], bucket, now)
    IN  /\ workers' = [workers EXCEPT ![w] = a.wk]
        /\ bucket' = a.bkt
        /\ issued' = issued + a.issued
        /\ UNCHANGED <<args, main_pc, now, stop_at, remaining_counter, metrics,
                       shutdown_event, summary_out, present, finalize_calls,
                       sink_failed>>

LockGranted(w) ==
    /\ Runnable(w)
    /\ workers[w].pc = "lock_wait"
    /\ bucket.locked = w
    /\ Resume(w)

Wake(w) ==
    /\ Runnable(w)
    /\ workers[w].pc = "sleeping"
    /\ now >= workers[w].wake
    /\ Resume(w)

\* the response head arrives: status = resp.status
ResponseStatus(w, s) ==
    /\ Runnable(w)
    /\ workers[w].pc = "sending"
    /\ workers' = [workers EXCEPT ![w].pc = "reading", ![w].status = s]
    /\ UNCHANGED <<args, main_pc, now, stop_at, remaining_counter, bucket,
                   metrics, shutdown_event, summary_out, issued, present,
                   finalize_calls, sink_failed>>

WriteOutcomes ==
    IF metrics.csv_writer /\ metrics.csv_open THEN SinkOutcomes
    ELSE {"written"}

\* worker(): the finally block, metrics.record(status, latency_ms, bytes_rcv)
Finally(w, bytes_rcv, sink) ==
    LET wk == workers[w]
    IN  /\ metrics' = record(metrics, wk.status, (now - wk.started) * 1000,
                             bytes_rcv, sink)
        /\ present' = IF wk.status # None THEN present + 1 ELSE present
        /\ sink_failed' = (sink_failed \/ sink # "written")

\* the request ends without cancellation: the body is read, or the transport
\* raises; then the finally block, then the next pass of the loop
Completed(w, bytes_rcv) ==
    /\ Runnable(w)
    /\ metrics.total_requests < MaxRecords
    /\ \E sink \in WriteOutcomes :
         /\ Finally(w, bytes_rcv, sink)
         /\ IF recordRaises(metrics, sink)
            THEN /\ workers' = [workers EXCEPT ![w] = At(@, "crashed")]
                 /\ UNCHANGED <<bucket, remaining_counter, issued>>
            ELSE Loop(w, workers[w])
    /\ UNCHANGED <<args, main_pc, now, stop_at, shutdown_event, summary_out,
                   finalize_calls>>

\* body = await resp.read(); bytes_rcv = len(body)
ResponseBody(w) ==
    /\ workers[w].pc = "reading"
    /\ Completed(w, BodyLen)

\* except Exception: pass
TransportError(w) ==
    /\ workers[w].pc \in {"sending", "reading"}
    /\ Completed(w, 0)

\* task.cancel() reaches the worker at the await it is suspended in.  The
\* tasks see it in the order of their wake-ups: a task whose wake-up was
\* queued before the cancel() calls runs before the others, and asyncio.run
\* cancels in the order of a set
CancelDelivered(w) ==
    /\ Running
    /\ Cancelling(w)
    /\ IF workers[w].pc \in {"sending", "reading"}
       THEN \E sink \in WriteOutcomes :
              /\ Finally(w, 0, sink)
              /\ workers' = [workers EXCEPT ![w] =
                    IF recordRaises(metrics, sink) THEN At(@, "crashed")
                    ELSE At(@, "cancelled")]
              /\ UNCHANGED bucket
       ELSE /\ workers' = [workers EXCEPT ![w] = At(@, "cancelled")]
            /\ bucket' =
                 IF workers[w].pc = "sleeping" THEN Release(bucket)
                 ELSE IF workers[w].pc = "lock_wait"
                 THEN IF bucket.locked = w THEN Release(bucket)
                      ELSE [bucket EXCEPT !.waiters =
                              SelectSeq(@, LAMBDA x : x # w)]
                 ELSE bucket
            /\ UNCHANGED <<metrics, present, sink_failed>>
    /\ UNCHANGED <<args, main_pc, now, stop_at, remaining_counter,
                   shutdown_event, summary_out, issued, finalize_calls>>

\* the clock, which every step reads anew
Tick ==
    /\ Running
    /\ \/ now < MaxTime
       \/ \E w \in Spawned : workers[w].pc = "sleeping" /\ workers[w].wake > now
    /\ now' = now + 1
    /\ UNCHANGED <<args, main_pc, stop_at, remaining_counter, bucket, workers,
                   metrics, shutdown_event, summary_out, issued, present,
                   finalize_calls, sink_failed>>

\* run(): _handle_sig, on SIGINT or SIGTERM; the handler stays installed
\* until the loop is closed
Signal ==
    /\ Running
    /\ ~Starting
    /\ ~shutdown_event
    /\ shutdown_event' = TRUE
    /\ UNCHANGED <<args, main_pc, now, stop_at, remaining_counter, bucket,
                   workers, metrics, summary_out, issued, present,
                   finalize_calls, sink_failed>>

CancelNone == workers

\* run(): `for w in workers: w.cancel()`, a no-op on a task that is done
CancelAll == [w \in Workers |->
                IF w \in Spawned /\ ~Finished(w)
                THEN [workers[w] EXCEPT !.cancel = TRUE] ELSE workers[w]]

\* metrics.finalize(), then the end of the `async with` block; an OSError
\* of close() ends run() without a summary
Finalize ==
    \E sink \in CloseOutcomes(metrics) :
        /\ metrics' = finalize(metrics, now, sink)
        /\ finalize_calls' = finalize_calls + 1
        /\ main_pc' = IF finalizeRaises(metrics, sink) THEN "teardown"
                      ELSE "closing"

\* run(): asyncio.wait(workers, timeout=...) or asyncio.gather(*workers)
\* returns; then `if shutdown_event.is_set()`
WaitReturns ==
    /\ main_pc = "waiting"
    /\ ~Starting
    /\ IF stop_at # None THEN AllFinished \/ now >= stop_at ELSE AllFinished
    /\ IF shutdown_event
       THEN /\ workers' = CancelAll
            /\ main_pc' = "cancel_wait"
            /\ UNCHANGED <<metrics, finalize_calls>>
       ELSE /\ Finalize
            /\ UNCHANGED workers
    /\ UNCHANGED <<args, now, stop_at, remaining_counter, bucket,
                   shutdown_event, summary_out, issued, present, sink_failed>>

\* run(): the gather after the cancellations returns
GatherDone ==
    /\ main_pc = "cancel_wait"
    /\ AllFinished
    /\ Finalize
    /\ UNCHANGED <<args, now, stop_at, remaining_counter, bucket, workers,
                   shutdown_event, summary_out, issued, present, sink_failed>>

\* run(): the session is closed, the summary is computed and printed and
\* run() returns; the tasks that are left go on until asyncio.run cancels them
RunReturns ==
    /\ main_pc = "closing"
    /\ summary_out' = summary(metrics)
    /\ main_pc' = "teardown"
    /\ UNCHANGED <<args, now, stop_at, remaining_counter, bucket, workers,
                   metrics, shutdown_event, issued, present, finalize_calls,
                   sink_failed>>

\* a task that asyncio.run has still to cancel
Uncancelled(w) == w \in Spawned /\ ~Finished(w) /\ ~workers[w].cancel

\* asyncio.run: run_until_complete(main) has returned and the tasks that are
\* left are cancelled, all in one go
TeardownCancel ==
    /\ main_pc = "teardown"
    /\ \E w \in Workers : Uncancelled(w)
    /\ workers' = CancelAll
    /\ UNCHANGED <<args, main_pc, now, stop_at, remaining_counter, bucket,
                   metrics, shutdown_event, summary_out, issued, present,
                   finalize_calls, sink_failed>>

\* asyncio.run: every task has ended, the loop is closed
LoopClosed ==
    /\ main_pc = "teardown"
    /\ AllFinished
    /\ main_pc' = "done"
    /\ UNCHANGED <<args, now, stop_at, remaining_counter, bucket, workers,
                   metrics, shutdown_event, summary_out, issued, present,
                   finalize_calls, sink_failed>>

Steps ==
    \/ Reject
    \/ \E w \in Workers : WorkerStart(w)
    \/ \E w \in Workers : SemAcquire(w)
    \/ \E w \in Workers : SemReturns(w)
    \/ \E w \in Workers : SemTimeout(w)
    \/ \E w \in Workers : LockGranted(w)
    \/ \E w \in Workers : Wake(w)
    \/ \E w \in Workers, s \in Statuses : ResponseStatus(w, s)
    \/ \E w \in Workers : ResponseBody(w)
    \/ \E w \in Workers : TransportError(w)
    \/ \E w \in Workers : CancelDelivered(w)
    \/ Tick
    \/ Signal
    \/ WaitReturns
    \/ GatherDone
    \/ RunReturns
    \/ TeardownCancel
    \/ LoopClosed

Next == Run \/ Steps

Spec == Init /\ [][Next]_vars

\* The event loop runs every task that is ready and fires every timer that
\* is due (the 0.01 s timeout of wait_for, the sleep in acquire, the wait of
\* run), the clock advances, and every request comes to an end: with a
\* response read to its end or with an exception.
WorkerStep(w) ==
    \/ WorkerStart(w)
    \/ SemAcquire(w)
    \/ SemReturns(w)
    \/ SemTimeout(w)
    \/ LockGranted(w)
    \/ Wake(w)
    \/ ResponseBody(w)
    \/ TransportError(w)
    \/ CancelDelivered(w)

RunStep ==
    Run \/ WaitReturns \/ GatherDone \/ RunReturns \/ TeardownCancel
        \/ LoopClosed

\* A task is at one await at a time, so being fair to the steps of a task is
\* being fair to each of them.
Fairness ==
    /\ WF_vars(RunStep)
    /\ WF_vars(Tick)
    /\ \A w \in Workers : WF_vars(WorkerStep(w))

\* run() never reads args.csv: the runs with --csv are the runs without it
LiveInit == Init /\ ~args.csv

LiveSpec == LiveInit /\ [][Next]_vars /\ Fairness



\* ------------------------------------------------------- the Metrics alone

\* A Metrics object that is given up to MaxSamples record() calls and then
\* summarised.  workers[1].status keeps the status of the last call.
MaxSamples == 5
Latencies == {10, 20, 30, 40, 50}
RecordStatuses == StatusCodes \cup {None}

MetricsInit ==
    /\ args = [duration |-> 0, requests |-> 0, concurrency |-> 1,
               qps |-> 0, csv |-> FALSE]
    /\ main_pc = "metrics"
    /\ now = 0
    /\ stop_at = None
    /\ remaining_counter = None
    /\ bucket = NoBucket
    /\ workers = [w \in Workers |-> [NewWorker EXCEPT !.pc = "none"]]
    /\ metrics = Metrics(0, FALSE)
    /\ shutdown_event = FALSE
    /\ summary_out = NoSummary
    /\ issued = 0
    /\ present = 0
    /\ finalize_calls = 0
    /\ sink_failed = FALSE

\* metrics.record(status, latency_ms, bytes_rcv)
MetricsRecord(status, latency_ms, bytes_rcv) ==
    /\ main_pc = "metrics"
    /\ metrics.total_requests < MaxSamples
    /\ metrics' = record(metrics, status, latency_ms, bytes_rcv, "written")
    /\ workers' = [workers EXCEPT ![1].status = status]
    /\ present' = IF status # None THEN present + 1 ELSE present
    /\ UNCHANGED <<args, main_pc, now, stop_at, remaining_counter, bucket,
                   shutdown_event, summary_out, issued, finalize_calls,
                   sink_failed>>

\* metrics.summary()
MetricsSummary ==
    /\ main_pc = "metrics"
    /\ summary_out' = summary(metrics)
    /\ main_pc' = "summarised"
    /\ UNCHANGED <<args, now, stop_at, remaining_counter, bucket, workers,
                   metrics, shutdown_event, issued, present, finalize_calls,
                   sink_failed>>

\* record() for every kind of status, one latency, bodies of 0 or BodyLen
RecordNext ==
    \/ \E s \in RecordStatuses, n \in {0, BodyLen} : MetricsRecord(s, 10, n)
    \/ MetricsSummary

RecordSpec == MetricsInit /\ [][RecordNext]_vars

\* record() for every latency sample, then summary()
PercentileNext ==
    \/ \E l \in Latencies : MetricsRecord(200, l, 0)
    \/ MetricsSummary

PercentileSpec == MetricsInit /\ [][PercentileNext]_vars

\* --------------------------------------------------- the TokenBucket alone

\* A TokenBucket built at time 0 and used by MaxWorkers callers that call
\* acquire() whenever they like.  The clock counts ticks of 1/Hz second;
\* issued counts the acquire() calls that have returned.
Hz == 2
MaxBucketTime == 4
MaxBurst == 2
BucketRates == {0, 1, 3}
Bursts == {None} \cup (1..MaxBurst)

BucketInit ==
    /\ \E r \in BucketRates, c \in Bursts :
         /\ bucket = [TokenBucket(r, c, 0) EXCEPT !.hz = Hz]
         /\ args = [duration |-> 0, requests |-> 0, concurrency |-> MaxWorkers,
                    qps |-> r, csv |-> FALSE]
    /\ main_pc = "bucket"
    /\ now = 0
    /\ stop_at = None
    /\ remaining_counter = None
    /\ workers = [w \in Workers |-> [NewWorker EXCEPT !.pc = "idle"]]
    /\ metrics = Metrics(0, FALSE)
    /\ shutdown_event = FALSE
    /\ summary_out = NoSummary
    /\ issued = 0
    /\ present = 0
    /\ finalize_calls = 0
    /\ sink_failed = FALSE

\* the caller is back from acquire() once the token is taken
Returned(n) == IF n.wk.pc = "sending" THEN At(n.wk, "idle") ELSE n.wk

\* await bucket.acquire(), up to its first suspension
BucketAcquire(w) ==
    /\ main_pc = "bucket"
    /\ workers[w].pc = "idle"
    /\ LET n == LoopTop(w, workers[w], bucket, None, now)
       IN  /\ workers' = [workers EXCEPT ![w] = Returned(n)]
           /\ bucket' = n.bkt
           /\ issued' = issued + n.issued
    /\ UNCHANGED <<args, main_pc, now, stop_at, remaining_counter, metrics,
                   shutdown_event, summary_out, present, finalize_calls,
                   sink_failed>>

\* the caller resumes in acquire(): it got the lock, or its sleep is over
BucketResume(w) ==
    /\ main_pc = "bucket"
    /\ \/ workers[w].pc = "lock_wait" /\ bucket.locked = w
       \/ workers[w].pc = "sleeping" /\ now >= workers[w].wake
    /\ LET n == acquire(workers[w], bucket, now)
       IN  /\ workers' = [workers EXCEPT ![w] = Returned(n)]
           /\ bucket' = n.bkt
           /\ issued' = issued + n.issued
    /\ UNCHANGED <<args, main_pc, now, stop_at, remaining_counter, metrics,
                   shutdown_event, summary_out, present, finalize_calls,
                   sink_failed>>

BucketTick ==
    /\ main_pc = "bucket"
    /\ now < MaxBucketTime
    /\ now' = now + 1
    /\ UNCHANGED <<args, main_pc, stop_at, remaining_counter, bucket, workers,
                   metrics, shutdown_event, summary_out, issued, present,
                   finalize_calls, sink_failed>>

BucketNext ==
    \/ \E w \in Workers : BucketAcquire(w)
    \/ \E w \in Workers : BucketResume(w)
    \/ BucketTick

BucketSpec == BucketInit /\ [][BucketNext]_vars

\* ------------------------------------------------------------------ claims

CountMode == args.duration <= 0 /\ args.requests > 0
InFlight(w) == workers[w].pc \in {"sending", "reading"}

RECURSIVE SumCounts(_, _)
SumCounts(f, S) ==
    IF S = {} THEN 0
    ELSE LET s == CHOOSE x \in S : TRUE IN f[s] + SumCounts(f, S \ {s})

\* C1: in count mode (requests = N > 0, no duration) and without a shutdown
\* signal, once finalize() has run the number of recorded outcomes is exactly
\* N, whatever the interleaving of the workers, the rate limiter and the
\* outcomes of the requests.
InvC1 ==
    (CountMode /\ ~shutdown_event /\ finalize_calls > 0)
        => metrics.total_requests = args.requests

WitC1 ==
    /\ main_pc = "done"
    /\ CountMode
    /\ ~shutdown_event
    /\ args.requests = MaxRequests
    /\ args.concurrency = MaxWorkers
    /\ metrics.total_requests = args.requests
    /\ metrics.successful > 0
    /\ metrics.failed > 0

\* C2: a worker cancelled while its request is in flight records no outcome:
\* the counters and the latency samples are left as they were, and the worker
\* ends cancelled.
ClaimC2 ==
    [][\A w \in Workers :
         (workers[w].cancel /\ InFlight(w) /\ ~InFlight(w)')
            => /\ metrics'.total_requests = metrics.total_requests
               /\ metrics'.successful = metrics.successful
               /\ metrics'.failed = metrics.failed
               /\ metrics'.latencies_ms = metrics.latencies_ms
               /\ workers'[w].pc = "cancelled"]_vars

\* C3: finalize() is called exactly once, and only when every worker has
\* stopped: no worker is in its loop when it runs and none records after it.
ClaimC3 ==
    /\ finalize_calls <= 1
    /\ finalize_calls = 1 => AllFinished

\* C4: once the shutdown signal is received no worker starts a new request.
ClaimC4 == [][shutdown_event => issued' = issued]_vars

\* C5: in duration mode no request is issued at a time >= the deadline.
ClaimC5 == [][(stop_at # None /\ issued' > issued) => now < stop_at]_vars

\* C6: in every reachable state successful + failed = total_requests, the
\* number of latency samples is total_requests, and the status counts add up
\* to the number of recorded outcomes that had a status.
InvC6 ==
    /\ metrics.successful + metrics.failed = metrics.total_requests
    /\ Len(metrics.latencies_ms) = metrics.total_requests
    /\ SumCounts(metrics.status_counts, StatusCodes) = present

WitC6 ==
    /\ metrics.total_requests >= 2
    /\ metrics.successful > 0
    /\ metrics.failed > 0
    /\ present < metrics.total_requests
    /\ \E w \in Workers : InFlight(w)

\* C7: a request that ends in a transport error (not a cancellation), the
\* failure while reading the body included, is recorded with no status and 0
\* bytes: failed goes up by one, successful and the status counts stay, and
\* the worker goes on.
ClaimC7 ==
    [][\A w \in Workers :
         (InFlight(w) /\ ~Cancelling(w)
            /\ metrics'.total_requests = metrics.total_requests + 1
            /\ metrics'.bytes_received = metrics.bytes_received
            /\ workers'[w] # workers[w])
            => /\ metrics'.failed = metrics.failed + 1
               /\ metrics'.successful = metrics.successful
               /\ metrics'.status_counts = metrics.status_counts
               /\ workers'[w].pc # "crashed"]_vars

NeitherSet == args.duration <= 0 /\ args.requests <= 0
BothSet == args.duration > 0 /\ args.requests > 0

\* C8 as stated: a configuration where neither or both of duration > 0 and
\* requests > 0 hold is rejected at startup, before any worker runs.
ClaimC8 ==
    (main_pc # "start" /\ (NeitherSet \/ BothSet))
        => (main_pc = "rejected" /\ issued = 0)

\* C8 as amended: a configuration where neither holds is rejected at startup,
\* before any worker is created and any request is issued; one where both
\* hold (with concurrency >= 1) is accepted and runs in duration mode, with
\* a deadline and without a request budget.
InvC8 ==
    main_pc # "start" =>
        /\ NeitherSet =>
             /\ main_pc = "rejected"
             /\ issued = 0
             /\ \A w \in Workers : workers[w].pc = "none"
        /\ (BothSet /\ args.concurrency >= 1) =>
             /\ main_pc # "rejected"
             /\ stop_at # None
             /\ remaining_counter = None

WitC8 ==
    /\ BothSet
    /\ main_pc = "done"
    /\ stop_at # None
    /\ metrics.total_requests > args.requests

\* C9: with a CSV sink configured, the number of data rows written equals
\* total_requests in every reachable state.
ClaimC9 == args.csv => metrics.csv_rows = metrics.total_requests


InAcquire(w) == workers[w].pc \in {"lock_wait", "sleeping"}

\* C11: for a bucket with rate R > 0 and capacity C, none of the first C
\* acquire() calls waits (no caller is suspended in acquire() while fewer
\* than C calls have returned), and a (C+1)-th call has returned only when
\* at least 1/R seconds have passed since the bucket was built.
InvC11 ==
    bucket.rate > 0 =>
        /\ (\E w \in Workers : InAcquire(w)) => issued >= bucket.capacity
        /\ issued > bucket.capacity => now * bucket.rate >= bucket.hz

WitC11 ==
    /\ bucket.rate > 0
    /\ bucket.capacity = MaxBurst
    /\ issued = bucket.capacity + 1
    /\ now * bucket.rate = bucket.hz

\* C14: 0 <= tokens <= capacity in every reachable state, also right after
\* the refill that an empty bucket would do at any later time, which never
\* lowers tokens; and tokens goes down only by the one token of a call that
\* returns.
InvC14 ==
    /\ [](/\ 0 <= bucket.tokens
          /\ bucket.tokens <= bucket.capacity
          /\ bucket.tokens < 1 =>
               \A t \in now..MaxBucketTime :
                  /\ Refill(bucket, t).tokens >= bucket.tokens
                  /\ Refill(bucket, t).tokens <= bucket.capacity)
    /\ [][bucket'.tokens < bucket.tokens =>
            (bucket'.tokens = bucket.tokens - 1 /\ issued' = issued + 1)]_vars

WitC14 ==
    /\ bucket.rate = 3
    /\ bucket.capacity = 1
    /\ bucket.tokens = 0
    /\ RefillOf(bucket, now) >= 2
    /\ issued >= 1

\* C15: at most one caller is inside the refill/wait/consume section: a
\* caller that sleeps for a token holds the lock, and while it sleeps no
\* other caller changes tokens or the refill timestamp.
InvC15 ==
    /\ [](\A w \in Workers : workers[w].pc = "sleeping" => bucket.locked = w)
    /\ [][\A w \in Workers :
            (workers[w].pc = "sleeping" /\ workers'[w] = workers[w])
               => (bucket'.tokens = bucket.tokens
                   /\ bucket'.updated = bucket.updated)]_vars

WitC15 ==
    \E w, v \in Workers :
        /\ workers[w].pc = "sleeping"
        /\ workers[v].pc = "lock_wait"
        /\ now >= workers[w].wake
        /\ RefillOf(bucket, now) >= 1

\* C17: on a bucket whose rate is 0 no acquire() call ever blocks.
ClaimC17 == bucket.rate = 0 => \A w \in Workers : ~InAcquire(w)

\* C19: for a bucket with rate R > 0 and capacity C the number of acquire()
\* calls that have returned by time t is at most C + R * t.
InvC19 ==
    bucket.rate > 0 =>
        issued * bucket.hz <= bucket.capacity * bucket.hz + bucket.rate * now

WitC19 ==
    /\ bucket.rate > 0
    /\ issued > bucket.capacity + 1
    /\ issued * bucket.hz = bucket.capacity * bucket.hz + bucket.rate * now


\* C12: a record() call adds 1 to successful and leaves failed alone exactly
\* when its status is present and 200 <= status < 400; in every other case
\* (no status, status < 200, status >= 400) it adds 1 to failed and leaves
\* successful alone.
InvC12 ==
    [][metrics' # metrics =>
         LET status == workers'[1].status
         IN  IF status \in 200..399
             THEN /\ metrics'.successful = metrics.successful + 1
                  /\ metrics'.failed = metrics.failed
             ELSE /\ metrics'.failed = metrics.failed + 1
                  /\ metrics'.successful = metrics.successful]_vars

WitC12 ==
    /\ main_pc = "metrics"
    /\ workers[1].status = 400
    /\ metrics.status_counts[399] = 1
    /\ metrics.status_counts[199] = 1
    /\ metrics.status_counts[400] = 1
    /\ metrics.total_requests = 4
    /\ metrics.successful = 1
    /\ metrics.failed = 3


\* the samples recorded so far, as the set of their positions
Samples == 1..Len(metrics.latencies_ms)

\* v is the sample at index i (from 0) of the samples in ascending order:
\* at most i samples are below v and more than i are at most v
AtRank(v, i) ==
    /\ \E k \in Samples : metrics.latencies_ms[k] = v
    /\ Cardinality({k \in Samples : metrics.latencies_ms[k] < v}) <= i
    /\ Cardinality({k \in Samples : metrics.latencies_ms[k] <= v}) > i

\* i is round(num/den * (n-1)) for n samples: an index of the samples that
\* is nearest to the product, the even one of the two when it is half way
NearestRank(i, num, den) ==
    LET x == num * (Len(metrics.latencies_ms) - 1)
        d == IF den * i >= x THEN den * i - x ELSE x - den * i
    IN  /\ i \in 0..(Len(metrics.latencies_ms) - 1)
        /\ 2 * d <= den
        /\ 2 * d = den => i % 2 = 0

\* C13: once summary() has run on n >= 1 samples, median, p95 and p99 are
\* the samples at index round(p * (n-1)) of the ascending order for p = 0.5,
\* 0.95 and 0.99 (round as Python rounds: a tie goes to the even index), so
\* [10,20,30,40,50] gives median 30 and p95 50; on no sample the three
\* percentiles and the mean are absent.
InvC13 ==
    main_pc = "summarised" =>
        /\ Samples # {} =>
             /\ \E i \in 0..MaxSamples :
                   NearestRank(i, 1, 2) /\ AtRank(summary_out.median_latency_ms, i)
             /\ \E i \in 0..MaxSamples :
                   NearestRank(i, 19, 20) /\ AtRank(summary_out.p95_latency_ms, i)
             /\ \E i \in 0..MaxSamples :
                   NearestRank(i, 99, 100) /\ AtRank(summary_out.p99_latency_ms, i)
             /\ summary_out.mean_latency_ms # <<>>
        /\ Samples = {} =>
             /\ summary_out.median_latency_ms = None
             /\ summary_out.p95_latency_ms = None
             /\ summary_out.p99_latency_ms = None
             /\ summary_out.mean_latency_ms = <<>>
        /\ metrics.latencies_ms = <<50, 10, 40, 20, 30>> =>
             /\ summary_out.median_latency_ms = 30
             /\ summary_out.p95_latency_ms = 50

WitC13 ==
    /\ main_pc = "summarised"
    /\ metrics.latencies_ms = <<50, 10, 40, 20, 30>>
    /\ summary_out.median_latency_ms = 30
    /\ summary_out.p95_latency_ms = 50
    /\ summary_out.p99_latency_ms = 50
    /\ summary_out.mean_latency_ms = <<150, 5>>


\* C18: in duration mode, when the wait for the workers ends with a worker
\* in the middle of a request: without a shutdown signal run() goes straight
\* to finalize() and cancels nobody; with the signal set it cancels every
\* worker that has not ended and finalize() waits until all of them have.
InvC18 ==
    /\ [][(/\ main_pc = "waiting"
           /\ main_pc' # "waiting"
           /\ stop_at # None
           /\ \E w \in Spawned : InFlight(w))
          => IF shutdown_event
             THEN /\ finalize_calls' = finalize_calls
                  /\ \A w \in Spawned :
                        ~Finished(w) => workers'[w].cancel
             ELSE /\ finalize_calls' = finalize_calls + 1
                  /\ workers' = workers]_vars
    /\ [][(/\ stop_at # None
           /\ main_pc = "cancel_wait"
           /\ finalize_calls' = finalize_calls + 1)
          => (AllFinished /\ workers' = workers)]_vars

WitC18 ==
    /\ stop_at # None
    /\ now >= stop_at
    /\ shutdown_event
    /\ main_pc = "cancel_wait"
    /\ finalize_calls = 0
    /\ \A w \in Workers : InFlight(w) /\ workers[w].cancel

\* a request admitted by the budget (a unit of it is taken for the worker)
\* whose outcome is not recorded yet
Admitted(w) ==
    \/ workers[w].pc \in {"lock_wait", "sleeping", "sending", "reading"}
    \/ workers[w].pc = "sem_wait" /\ workers[w].sem = "got"

\* C20: in count mode the budget is never negative, never grows and loses
\* exactly 1 per admission: while no worker has been cancelled, the recorded
\* outcomes plus the admitted requests not recorded yet are N minus the
\* budget that is left; and total_requests never exceeds N.
InvC20 ==
    /\ [](remaining_counter # None =>
            /\ remaining_counter >= 0
            /\ metrics.total_requests <= args.requests
            /\ (\A w \in Workers : workers[w].pc # "cancelled") =>
                  metrics.total_requests
                     + Cardinality({w \in Workers : Admitted(w)})
                  = args.requests - remaining_counter)
    /\ [][remaining_counter # None =>
            \/ remaining_counter' = remaining_counter
            \/ /\ remaining_counter' = remaining_counter - 1
               /\ metrics'.total_requests
                     + Cardinality({w \in Workers : Admitted(w)'})
                  = metrics.total_requests
                     + Cardinality({w \in Workers : Admitted(w)}) + 1]_vars

WitC20 ==
    /\ CountMode
    /\ args.requests = MaxRequests
    /\ remaining_counter = 0
    /\ metrics.total_requests = 1
    /\ \E w \in Workers : workers[w].pc = "sem_wait"
    /\ \E w \in Workers : workers[w].pc = "reading"


\* C16: in count mode a worker that finds the budget used up stops waiting
\* for it and exits, and, every request coming to an end and the clock
\* advancing, all workers exit and the run reaches finalize().
LiveC16 ==
    /\ [][\A w \in Workers :
            (CountMode /\ workers[w].sem = "blocked")
               => (workers'[w] = workers[w] \/ workers'[w].pc = "done")]_vars
    /\ (CountMode /\ main_pc = "waiting")
          ~> (AllFinished /\ finalize_calls > 0)

WitC16 ==
    /\ CountMode
    /\ args.requests = MaxRequests
    /\ args.concurrency = MaxWorkers
    /\ args.qps > 0
    /\ remaining_counter = 0
    /\ AllFinished
    /\ finalize_calls > 0
    /\ metrics.total_requests = args.requests

====
